---- MODULE Spec2Model ----
(***************************************************************************)
(* Model of go-kamailio's binrpc package: the packet encoder               *)
(* (ConstructHeader, ConstructPayload, WritePacket, the Encode methods of  *)
(* BinRpcInt and BinRpcString) and the client shim InvokeMethod.           *)
(*                                                                         *)
(* Bytes are naturals 0..255, buffers are sequences of bytes.  Go's fixed  *)
(* width arithmetic (uint8, int8, byte(...)) is kept by explicit modulo.   *)
(***************************************************************************)
EXTENDS Integers, Sequences, FiniteSets

VARIABLES
    pc,             \* position of the encoder call under way
    arg,            \* the BinRpcEncoder receiver s of Encode
    valType,        \* WritePacket / ConstructPayload parameter valType
    val,            \* WritePacket / ConstructPayload parameter val
    payloadLength,  \* ConstructHeader parameter payloadLength
    payload,        \* contents of the bytes.Buffer payload
    buf,            \* contents of the bytes.Buffer buf (header, in ConstructHeader)
    cookie,         \* the uint32 cookie
    w,              \* the io.Writer: the Write calls it has received, in order
    wAccepts,       \* whether the io.Writer accepts what it is given
    err,            \* the error returned by the encoder call
    ipc,            \* per invocation of InvokeMethod: its position
    method,         \* per invocation: parameter method
    conn,           \* per invocation: local conn
    ierr,           \* per invocation: local err
    ret,            \* per invocation: the value returned to the caller
    sockets         \* every socket net.Dial has opened, in order of creation

encVars == <<pc, arg, valType, val, payloadLength, payload, buf, cookie, w, wAccepts, err>>
invVars == <<ipc, method, conn, ierr, ret, sockets>>
vars == <<pc, arg, valType, val, payloadLength, payload, buf, cookie, w, wAccepts, err,
          ipc, method, conn, ierr, ret, sockets>>

----------------------------------------------------------------------------
(* Bounds of the model *)

\* longest string handed to BinRpcString.Encode
MaxStrLen == 260
\* largest payloadLength handed to ConstructHeader directly
MaxPayloadLength == 1100
\* number of InvokeMethod invocations (they may run concurrently)
NumInvocations == 2

----------------------------------------------------------------------------
(* Program constants *)

BinRpcMagic == 10
BinRpcVersion == 1
BinRpcMagicVersion == BinRpcMagic * 16 + BinRpcVersion

BinRpcTypeInt == 0
BinRpcTypeString == 1
BinRpcTypeDouble == 2
BinRpcTypeStruct == 3
BinRpcTypeArray == 4
BinRpcTypeAVP == 5
BinRpcTypeBytes == 6
BinRpcTypeAll == 15

TypeTags == {BinRpcTypeInt, BinRpcTypeString, BinRpcTypeDouble, BinRpcTypeStruct,
             BinRpcTypeArray, BinRpcTypeAVP, BinRpcTypeBytes, BinRpcTypeAll}

\* the nil error / nil interface
Nil == "nil"

\* the nil net.Conn; sockets are numbered from 1
NilConn == 0

----------------------------------------------------------------------------
(* Fixed-width arithmetic *)

RECURSIVE Pow2(_)
Pow2(k) == IF k = 0 THEN 1 ELSE 2 * Pow2(k - 1)

\* Go's | on unsigned integers
RECURSIVE BitOr(_, _)
BitOr(a, b) ==
    IF a = 0 THEN b
    ELSE IF b = 0 THEN a
    ELSE (IF a % 2 = 1 \/ b % 2 = 1 THEN 1 ELSE 0) + 2 * BitOr(a \div 2, b \div 2)

\* Go's << on unsigned integers (no width reached in this program)
Shl(a, k) == a * Pow2(k)

\* conversions byte(x) / uint8(x) and int8(x)
ToUint8(x) == x % 256
ToInt8(x) == LET m == x % 256 IN IF m >= 128 THEN m - 256 ELSE m

\* the range of int32 (type BinRpcInt int32)
MaxInt32 == 2147483647
MinInt32 == (-MaxInt32) - 1

\* binary.Write(.., binary.BigEndian, x) of an int32: the four bytes of its
\* two's complement, most significant first (\div rounds down, % is >= 0)
BigEndianInt32(x) ==
    << (x \div 16777216) % 256, (x \div 65536) % 256, (x \div 256) % 256, x % 256 >>

LittleEndianInt32(x) ==
    << x % 256, (x \div 256) % 256, (x \div 65536) % 256, (x \div 16777216) % 256 >>

\* A uint32 is held as its two 16-bit halves, value hi * 65536 + lo
U32(hi, lo) == [hi |-> hi, lo |-> lo]

\* binary.Write(.., binary.BigEndian, c) of a uint32
BigEndianUint32(c) == << c.hi \div 256, c.hi % 256, c.lo \div 256, c.lo % 256 >>

----------------------------------------------------------------------------
(* Values handed to the encoder.  A value is a record                     *)
(*   kind = "int32"   : a BinRpcInt, field i                               *)
(*   kind = "bytes"   : a []byte, field b                                  *)
(*   kind = "string"  : a BinRpcString, field b (its bytes)                *)
(*   kind = "unsized" : a value encoding/binary cannot size (a Go int)     *)

IntVal(i) == [kind |-> "int32", i |-> i, b |-> << >>]
BytesVal(b) == [kind |-> "bytes", i |-> 0, b |-> b]
StringVal(b) == [kind |-> "string", i |-> 0, b |-> b]
UnsizedVal == [kind |-> "unsized", i |-> 0, b |-> << >>]

\* binary.Size(val)
BinarySize(v) ==
    CASE v.kind = "int32" -> 4
      [] v.kind = "bytes" -> Len(v.b)
      [] OTHER -> -1

\* the bytes binary.Write(.., binary.BigEndian, val) appends
BinaryBytesLE(v) ==
    CASE v.kind = "int32" -> LittleEndianInt32(v.i)
      [] v.kind = "bytes" -> v.b
      [] OTHER -> << >>

BinaryBytes(v) ==
    CASE v.kind = "int32" -> BigEndianInt32(v.i)
      [] v.kind = "bytes" -> v.b
      [] OTHER -> << >>

----------------------------------------------------------------------------
(* ConstructHeader(header, payloadLength, cookie): the buffer after the    *)
(* call and the error returned.  bytes.Buffer never refuses a write and    *)
(* binary.Size(cookie) is 4, so no error return is taken.                  *)

ConstructHeaderPlSizeByte(header, n, c) ==
    LET plSize == ToUint8(ToUint8(n \div 256) + (IF n % 256 > 0 THEN 1 ELSE 0))
        cookieSize == 4
        flagsByte == ToUint8(BitOr(BitOr(Shl(0, 4), Shl(ToUint8(plSize - 1), 2)),
                                   cookieSize - 1))
    IN  [buf |-> header \o << ToUint8(BinRpcMagicVersion), flagsByte, ToUint8(plSize) >>
                        \o BigEndianUint32(c),
         err |-> Nil]

ConstructHeader(header, n, c) ==
    LET plSize == ToUint8(ToUint8(n \div 256) + (IF n % 256 > 0 THEN 1 ELSE 0))
        cookieSize == 4
        flagsByte == ToUint8(BitOr(BitOr(Shl(0, 4), Shl(ToUint8(plSize - 1), 2)),
                                   cookieSize - 1))
    IN  [buf |-> header \o << ToUint8(BinRpcMagicVersion), flagsByte, ToUint8(n) >>
                        \o BigEndianUint32(c),
         err |-> Nil]

----------------------------------------------------------------------------
(* ConstructPayload(payload, valType, val): the buffer after the call and  *)
(* the error returned.                                                     *)

ConstructPayload(pl, t, v) ==
    LET valueLength == ToInt8(BinarySize(v))
        sflag == IF valueLength > 8 THEN 1 ELSE 0
        \* binary.Size(valueLength) of an int8 is 1
        size == IF valueLength > 8 THEN 1 ELSE valueLength
        first == ToUint8(BitOr(BitOr(Shl(sflag, 7), Shl(size, 4)), t))
    IN  IF valueLength < 0
        THEN [buf |-> pl, err |-> "failed to determine byte-size of value"]
        ELSE [buf |-> pl \o << first >>
                         \o (IF sflag = 1 THEN << ToUint8(valueLength) >> ELSE << >>)
                         \o BinaryBytes(v),
              err |-> Nil]

----------------------------------------------------------------------------
(* Inputs *)

\* uint32(rand.Int63()) can be any 32-bit value; these are the ones tried
Cookies == {U32(0, 0), U32(258, 772), U32(65535, 65535)}

\* a string of n non-NUL bytes
StrOfLen(n) == [k \in 1..n |-> 1 + ((n + 7 * k) % 255)]

\* "dispatcher.list"
DispatcherList == << 100, 105, 115, 112, 97, 116, 99, 104, 101, 114, 46, 108, 105, 115, 116 >>

Strings == {StrOfLen(n) : n \in 0..MaxStrLen} \cup {DispatcherList}

\* 32-bit signed integers around every power of two, of both signs
Int32s == {s * Pow2(k) + d : s \in {-1, 1}, k \in 0..30, d \in {-1, 0, 1}}
              \cup {MinInt32, MinInt32 + 1, MaxInt32 - 1, MaxInt32}

EncoderArgs == {IntVal(i) : i \in Int32s} \cup {StringVal(b) : b \in Strings}

\* values handed to ConstructPayload directly
PayloadVals == {IntVal(i) : i \in {-1, 0, 1}}
                  \cup {BytesVal(StrOfLen(n)) : n \in 0..(MaxStrLen + 1)}
                  \cup {UnsizedVal}

Invocations == 1..NumInvocations

----------------------------------------------------------------------------
(* State while no call of the respective kind is under way *)

EncIdle ==
    /\ arg = UnsizedVal
    /\ valType = 0
    /\ val = UnsizedVal
    /\ payloadLength = 0
    /\ payload = << >>
    /\ buf = << >>
    /\ cookie = U32(0, 0)
    /\ w = << >>
    /\ wAccepts = TRUE
    /\ err = Nil

InvIdle ==
    /\ ipc = [p \in Invocations |-> "idle"]
    /\ method = [p \in Invocations |-> << >>]
    /\ conn = [p \in Invocations |-> NilConn]
    /\ ierr = [p \in Invocations |-> Nil]
    /\ ret = [p \in Invocations |-> Nil]
    /\ sockets = << >>

----------------------------------------------------------------------------
(* A direct call of ConstructHeader on an empty buffer *)

InitHeader ==
    /\ pc = "header.call"
    /\ arg = UnsizedVal
    /\ valType = 0
    /\ val = UnsizedVal
    /\ payloadLength \in 0..MaxPayloadLength
    /\ payload = << >>
    /\ buf = << >>
    /\ cookie \in Cookies
    /\ w = << >>
    /\ wAccepts = TRUE
    /\ err = Nil
    /\ InvIdle

CallConstructHeader ==
    /\ pc = "header.call"
    /\ LET r == ConstructHeader(buf, payloadLength, cookie)
       IN  /\ buf' = r.buf
           /\ err' = r.err
    /\ pc' = "header.ret"
    /\ UNCHANGED <<arg, valType, val, payloadLength, payload, cookie, w, wAccepts>>
    /\ UNCHANGED invVars

NextHeader == CallConstructHeader

SpecHeader == InitHeader /\ [][NextHeader]_vars

----------------------------------------------------------------------------
(* A direct call of ConstructPayload on an empty buffer *)

InitPayload ==
    /\ pc = "payload.call"
    /\ arg = UnsizedVal
    /\ valType \in TypeTags
    /\ val \in PayloadVals
    /\ payloadLength = 0
    /\ payload = << >>
    /\ buf = << >>
    /\ cookie = U32(0, 0)
    /\ w = << >>
    /\ wAccepts = TRUE
    /\ err = Nil
    /\ InvIdle

CallConstructPayload ==
    /\ pc = "payload.call"
    /\ LET r == ConstructPayload(payload, valType, val)
       IN  /\ payload' = r.buf
           /\ err' = r.err
    /\ pc' = "payload.ret"
    /\ UNCHANGED <<arg, valType, val, payloadLength, buf, cookie, w, wAccepts>>
    /\ UNCHANGED invVars

NextPayload == CallConstructPayload

SpecPayload == InitPayload /\ [][NextPayload]_vars

----------------------------------------------------------------------------
(* s.Encode(w): the Encode methods and WritePacket, statement by statement *)

ErrPayload == "failed to construct payload: failed to determine byte-size of value"
ErrHeader == "failed to construct header"
ErrWrite == "write refused"

Init ==
    /\ pc = "Encode"
    /\ arg \in EncoderArgs
    /\ valType = 0
    /\ val = UnsizedVal
    /\ payloadLength = 0
    /\ payload = << >>
    /\ buf = << >>
    /\ cookie = U32(0, 0)
    /\ w = << >>
    /\ wAccepts \in BOOLEAN
    /\ err = Nil
    /\ InvIdle

\* func (s BinRpcInt) Encode: WritePacket(w, BinRpcTypeInt, s)
EncodeInt ==
    /\ pc = "Encode"
    /\ arg.kind = "int32"
    /\ valType' = BinRpcTypeInt
    /\ val' = arg
    /\ pc' = "wp.payload"
    /\ UNCHANGED <<arg, payloadLength, payload, buf, cookie, w, wAccepts, err>>
    /\ UNCHANGED invVars

\* func (s BinRpcString) Encode: val := append([]byte(s), 0x0); WritePacket(w, BinRpcTypeString, val)
EncodeString ==
    /\ pc = "Encode"
    /\ arg.kind = "string"
    /\ valType' = BinRpcTypeString
    /\ val' = BytesVal(Append(arg.b, 0))
    /\ pc' = "wp.payload"
    /\ UNCHANGED <<arg, payloadLength, payload, buf, cookie, w, wAccepts, err>>
    /\ UNCHANGED invVars

\* err := ConstructPayload(payload, valType, val); if err != nil { return ... }
WP_ConstructPayload ==
    /\ pc = "wp.payload"
    /\ LET r == ConstructPayload(payload, valType, val)
       IN  /\ payload' = r.buf
           /\ IF r.err # Nil
              THEN err' = ErrPayload /\ pc' = "done"
              ELSE err' = err /\ pc' = "wp.cookie"
    /\ UNCHANGED <<arg, valType, val, payloadLength, buf, cookie, w, wAccepts>>
    /\ UNCHANGED invVars

\* cookie := uint32(rand.Int63())
WP_Cookie ==
    /\ pc = "wp.cookie"
    /\ \E c \in Cookies : cookie' = c
    /\ pc' = "wp.header"
    /\ UNCHANGED <<arg, valType, val, payloadLength, payload, buf, w, wAccepts, err>>
    /\ UNCHANGED invVars

\* err = ConstructHeader(buf, uint64(payload.Len()), cookie); if err != nil { return ... }
WP_ConstructHeader ==
    /\ pc = "wp.header"
    /\ payloadLength' = Len(payload)
    /\ LET r == ConstructHeader(buf, Len(payload), cookie)
       IN  /\ buf' = r.buf
           /\ IF r.err # Nil
              THEN err' = ErrHeader /\ pc' = "done"
              ELSE err' = err /\ pc' = "wp.append"
    /\ UNCHANGED <<arg, valType, val, payload, cookie, w, wAccepts>>
    /\ UNCHANGED invVars

\* a variant that hands the payload to the writer instead of to buf
WP_AppendPayloadToWriter ==
    /\ pc = "wp.append"
    /\ w' = Append(w, payload)
    /\ payload' = << >>
    /\ pc' = "wp.write"
    /\ UNCHANGED <<arg, valType, val, payloadLength, buf, cookie, wAccepts, err>>
    /\ UNCHANGED invVars

\* _, err = payload.WriteTo(buf): buf takes the bytes, payload is drained
WP_AppendPayload ==
    /\ pc = "wp.append"
    /\ buf' = buf \o payload
    /\ payload' = << >>
    /\ pc' = "wp.write"
    /\ UNCHANGED <<arg, valType, val, payloadLength, cookie, w, wAccepts, err>>
    /\ UNCHANGED invVars

\* _, err = buf.WriteTo(w); return err
\* bytes.Buffer.WriteTo makes one w.Write call with all of its unread bytes
WP_WriteTo ==
    /\ pc = "wp.write"
    /\ w' = IF Len(buf) > 0 THEN Append(w, buf) ELSE w
    /\ IF wAccepts
       THEN buf' = << >> /\ err' = Nil
       ELSE buf' = buf /\ err' = ErrWrite
    /\ pc' = "done"
    /\ UNCHANGED <<arg, valType, val, payloadLength, payload, cookie, wAccepts>>
    /\ UNCHANGED invVars

Next ==
    \/ EncodeInt
    \/ EncodeString
    \/ WP_ConstructPayload
    \/ WP_Cookie
    \/ WP_ConstructHeader
    \/ WP_AppendPayload
    \/ WP_WriteTo

Spec == Init /\ [][Next]_vars

----------------------------------------------------------------------------
(* Reading the wire format back, as a receiver would *)

\* payload frame, byte 0: sizeFlag(1b) | size(3b) | type(4b)
SizeFlagOf(b) == b \div 128
SizeOf(b) == (b \div 16) % 8
TypeOf(b) == b % 16

\* header, byte 1: flags(4b) | LL(2b) | CL(2b)
FlagsOf(b) == b \div 16
LLOf(b) == (b \div 4) % 4
CLOf(b) == b % 4

\* the unsigned big-endian value of a short byte sequence
RECURSIVE BEValue(_)
BEValue(bs) ==
    IF Len(bs) = 0 THEN 0 ELSE 256 * BEValue(SubSeq(bs, 1, Len(bs) - 1)) + bs[Len(bs)]

\* the signed value of four big-endian two's-complement bytes
Int32OfBytes(bs) ==
    (IF bs[1] >= 128 THEN bs[1] - 256 ELSE bs[1]) * 16777216
        + bs[2] * 65536 + bs[3] * 256 + bs[4]

\* the reference header is 2 bytes, 1 length byte and 4 cookie bytes long
HeaderLen == 7
HeaderOf(pkt) == SubSeq(pkt, 1, HeaderLen)
FrameOf(pkt) == SubSeq(pkt, HeaderLen + 1, Len(pkt))
From(bs, k) == SubSeq(bs, k, Len(bs))

\* ceil(n / 256), at least 1
PlSizeSpec(n) == IF n = 0 THEN 1 ELSE (n + 255) \div 256

----------------------------------------------------------------------------
(* Claims about the encoder *)

\* C1: for every string S without NUL, BinRpcString(S).Encode emits a frame of
\* type 1 whose value bytes are S followed by one 0x00 and whose reported
\* length is len(S)+1: in the size subfield with sizeFlag=0 when len(S)+1 <= 8,
\* else in an explicit length field with sizeFlag=1.
C1_StringFrame ==
    (pc = "done" /\ arg.kind = "string" /\ wAccepts /\ Len(w) = 1) =>
        /\ Len(w[1]) > HeaderLen
        /\ LET f == FrameOf(w[1])
               L == Len(arg.b) + 1
           IN  /\ Len(f) >= 1
               /\ TypeOf(f[1]) = BinRpcTypeString
               /\ IF L <= 8
                  THEN /\ SizeFlagOf(f[1]) = 0
                       /\ SizeOf(f[1]) = L
                       /\ From(f, 2) = arg.b \o << 0 >>
                  ELSE /\ SizeFlagOf(f[1]) = 1
                       /\ Len(f) = 1 + SizeOf(f[1]) + L
                       /\ BEValue(SubSeq(f, 2, 1 + SizeOf(f[1]))) = L
                       /\ From(f, 2 + SizeOf(f[1])) = arg.b \o << 0 >>

\* C2: for every 32-bit signed I, BinRpcInt(I).Encode emits a frame whose first
\* byte has type=0, sizeFlag=0, size=4, followed by exactly the 4 big-endian
\* two's-complement bytes of I and nothing else.
C2_IntFrame ==
    (pc = "done" /\ arg.kind = "int32" /\ wAccepts) =>
        /\ err = Nil
        /\ Len(w) = 1
        /\ LET f == FrameOf(w[1])
           IN  /\ Len(f) = 5
               /\ TypeOf(f[1]) = BinRpcTypeInt
               /\ SizeFlagOf(f[1]) = 0
               /\ SizeOf(f[1]) = 4
               /\ Int32OfBytes(From(f, 2)) = arg.i

C2_Witness ==
    /\ pc = "done"
    /\ arg = IntVal(-2)
    /\ wAccepts
    /\ Len(w) = 1
    /\ FrameOf(w[1]) = << 64, 255, 255, 255, 254 >>

\* C3: in every packet WritePacket writes, the header comes before the payload
\* and the payload length the header declares equals the number of payload
\* bytes that follow the header.
C3_DeclaredLength ==
    (pc = "done" /\ wAccepts /\ Len(w) = 1) =>
        /\ Len(w[1]) >= HeaderLen
        /\ w[1][1] = BinRpcMagicVersion
        /\ w[1][3] = Len(w[1]) - HeaderLen

\* C9: Encode of a BinRpcInt or of a BinRpcString of any length, to a writer
\* that accepts the bytes, returns no error.
C9_EncodeNeverFails ==
    (pc = "done" /\ arg.kind \in {"int32", "string"} /\ wAccepts) => err = Nil

\* C10: each WritePacket call builds the payload before the header and issues
\* at most one write, whose bytes are the complete header followed by the
\* complete payload frame; when construction fails nothing is written.
C10_OneCompleteWrite ==
    /\ Len(w) <= 1
    /\ (pc \in {"Encode", "wp.payload", "wp.cookie", "wp.header", "wp.append"}) => w = << >>
    /\ (buf # << >>) => (pc \in {"wp.append", "wp.write", "done"})
    /\ (pc = "wp.header") => (buf = << >> /\ Len(payload) >= 1 + Len(BinaryBytes(val)))
    /\ (err \in {ErrPayload, ErrHeader}) => w = << >>
    /\ (w # << >>) =>
          LET h == HeaderOf(w[1])
              f == FrameOf(w[1])
              v == IF val.kind = "int32" THEN BigEndianInt32(val.i) ELSE val.b
          IN  /\ pc = "done"
              /\ Len(w[1]) >= HeaderLen + 1 + Len(v)
              /\ h[1] = BinRpcMagicVersion
              /\ h[3] = payloadLength % 256
              /\ SubSeq(h, 4, 7) = BigEndianUint32(cookie)
              /\ payloadLength = Len(f)
              /\ TypeOf(f[1]) = valType
              /\ From(f, Len(f) - Len(v) + 1) = v
              /\ Len(f) \in {1 + Len(v), 2 + Len(v)}

C10_Witness ==
    /\ pc = "done"
    /\ arg = StringVal(DispatcherList)
    /\ cookie = U32(258, 772)
    /\ w = << << 161, 3, 18, 1, 2, 3, 4, 145, 16 >> \o DispatcherList \o << 0 >> >>

----------------------------------------------------------------------------
(* Claims about ConstructPayload and ConstructHeader called directly *)

\* C7: in the first byte of every frame ConstructPayload emits, the sizeFlag
\* bit is 1 iff the value's serialized byte length L is greater than 8 (a value
\* of exactly 8 bytes has sizeFlag=0 and inline size), and the type nibble
\* equals the given type tag.
C7_SizeFlagIffOver8 ==
    (pc = "payload.ret" /\ err = Nil) =>
        LET L == IF val.kind = "int32" THEN 4 ELSE Len(val.b)
        IN  /\ Len(payload) >= 1
            /\ (SizeFlagOf(payload[1]) = 1) <=> (L > 8)
            /\ TypeOf(payload[1]) = valType

\* C5: for every payload length n in 0..255 and every cookie, the header built
\* by ConstructHeader carries n in its single payload-length byte, the byte
\* right after the flags/LL/CL byte.
C5_LengthByte ==
    (pc = "header.ret" /\ payloadLength \in 0..255) =>
        /\ err = Nil
        /\ Len(buf) = HeaderLen
        /\ buf[3] = payloadLength

C5_Witness ==
    /\ pc = "header.ret"
    /\ payloadLength = 255
    /\ cookie = U32(258, 772)
    /\ buf = << 161, 3, 255, 1, 2, 3, 4 >>

\* C8: for every payload length n >= 0 passed to ConstructHeader, the second
\* header byte has flags nibble 0, LL = plSize-1 with plSize = ceil(n/256),
\* at least 1, and CL = 3.
C8_FlagsByte ==
    (pc = "header.ret") =>
        /\ Len(buf) >= 2
        /\ FlagsOf(buf[2]) = 0
        /\ LLOf(buf[2]) = PlSizeSpec(payloadLength) - 1
        /\ CLOf(buf[2]) = 3

----------------------------------------------------------------------------
(* InvokeMethod(method, host, port).  Invocations run concurrently, each on  *)
(* its own goroutine; an invocation's locals are its entries of ipc, method, *)
(* conn, ierr and ret.  A socket is a record: the invocation whose Dial      *)
(* opened it, the Write calls made on it and the Close calls made on it,     *)
(* each with the invocation that made it.                                    *)

ErrDial == "dial failed"
ErrConnect == "failed to connect to kamailio RPC server: dial failed"
ErrInvoke == "failed to invoke RPC method"

\* method names tried: "dispatcher.list" and a name of 127 bytes
Methods == {DispatcherList, StrOfLen(127)}

\* WritePacket(w, valType, val) as one step: the Write calls made on w and
\* the error returned, for the cookie drawn and a writer that accepts or not
WritePacket(t, v, c, accepts) ==
    LET p == ConstructPayload(<< >>, t, v)
        h == ConstructHeader(<< >>, Len(p.buf), c)
    IN  IF p.err # Nil THEN [writes |-> << >>, err |-> ErrPayload]
        ELSE IF h.err # Nil THEN [writes |-> << >>, err |-> ErrHeader]
        ELSE [writes |-> << h.buf \o p.buf >>,
              err |-> IF accepts THEN Nil ELSE ErrWrite]

\* a variant of Dial that hands out the first socket again once one exists
DialConnShared(socks, p) ==
    IF Len(socks) > 0
    THEN [socks |-> socks, conn |-> 1]
    ELSE [socks |-> Append(socks, [openedBy |-> p, writes |-> << >>, closedBy |-> << >>]),
          conn |-> Len(socks) + 1]

\* a successful net.Dial("udp", ..): a new socket, owned by the caller
DialConn(socks, p) ==
    [socks |-> Append(socks, [openedBy |-> p, writes |-> << >>, closedBy |-> << >>]),
     conn |-> Len(socks) + 1]

InitInvoke ==
    /\ pc = "idle"
    /\ EncIdle
    /\ ipc = [p \in Invocations |-> "dial"]
    /\ method \in [Invocations -> Methods]
    /\ conn = [p \in Invocations |-> NilConn]
    /\ ierr = [p \in Invocations |-> Nil]
    /\ ret = [p \in Invocations |-> Nil]
    /\ sockets = << >>

\* conn, err := net.Dial("udp", host+":"+port): (conn, nil) or (nil, err)
Dial(p) ==
    /\ ipc[p] = "dial"
    /\ \E ok \in BOOLEAN :
          IF ok
          THEN LET d == DialConn(sockets, p)
               IN  /\ sockets' = d.socks
                   /\ conn' = [conn EXCEPT ![p] = d.conn]
                   /\ ierr' = [ierr EXCEPT ![p] = Nil]
          ELSE /\ sockets' = sockets
               /\ conn' = [conn EXCEPT ![p] = NilConn]
               /\ ierr' = [ierr EXCEPT ![p] = ErrDial]
    /\ ipc' = [ipc EXCEPT ![p] = "defer"]
    /\ UNCHANGED <<method, ret>>
    /\ UNCHANGED encVars

\* defer conn.Close(): the method value of a nil interface cannot be taken,
\* the goroutine panics with a nil pointer dereference and returns nothing
DeferClose(p) ==
    /\ ipc[p] = "defer"
    /\ ipc' = [ipc EXCEPT ![p] = IF conn[p] = NilConn THEN "panic" ELSE "write"]
    /\ UNCHANGED <<method, conn, ierr, ret, sockets>>
    /\ UNCHANGED encVars

\* if err != nil { return ... }; err = codec.WriteRequest(method);
\* if err != nil { return ... }; return nil
\* WriteRequest is BinRpcString(name).Encode(c.c)
WriteRequest(p) ==
    /\ ipc[p] = "write"
    /\ IF ierr[p] # Nil
       THEN /\ ret' = [ret EXCEPT ![p] = ErrConnect]
            /\ UNCHANGED <<ierr, sockets>>
       ELSE \E c \in Cookies, accepts \in BOOLEAN :
               LET r == WritePacket(BinRpcTypeString, BytesVal(Append(method[p], 0)),
                                    c, accepts)
                   calls == [k \in 1..Len(r.writes) |-> [by |-> p, data |-> r.writes[k]]]
               IN  /\ sockets' = [sockets EXCEPT ![conn[p]].writes = @ \o calls]
                   /\ ierr' = [ierr EXCEPT ![p] = r.err]
                   /\ ret' = [ret EXCEPT ![p] = IF r.err # Nil THEN ErrInvoke ELSE Nil]
    /\ ipc' = [ipc EXCEPT ![p] = "return"]
    /\ UNCHANGED <<method, conn>>
    /\ UNCHANGED encVars

\* the function returns: the deferred conn.Close() runs, the caller gets ret
Return(p) ==
    /\ ipc[p] = "return"
    /\ sockets' = [sockets EXCEPT ![conn[p]].closedBy = Append(@, p)]
    /\ ipc' = [ipc EXCEPT ![p] = "done"]
    /\ UNCHANGED <<method, conn, ierr, ret>>
    /\ UNCHANGED encVars

NextInvoke ==
    \E p \in Invocations :
        \/ Dial(p)
        \/ DeferClose(p)
        \/ WriteRequest(p)
        \/ Return(p)

SpecInvoke == InitInvoke /\ [][NextInvoke]_vars

----------------------------------------------------------------------------
(* Claims about InvokeMethod *)

\* C4: InvokeMethod returns success exactly when the dial succeeded and the
\* packet write returned without error; when the dial, the write or the
\* encoding fails, the invocation ends by returning that failure as an error
\* value, without abnormal termination.
C4_ReturnsOutcome ==
    \A p \in Invocations :
        /\ ipc[p] # "panic"
        /\ (ipc[p] = "done") => ((ret[p] = Nil) <=> (conn[p] # NilConn /\ ierr[p] = Nil))
        /\ (ipc[p] \in {"write", "return", "done"} /\ conn[p] = NilConn) => ret[p] # Nil

\* C6: every socket an invocation opens is closed exactly once by the time the
\* invocation exits, on every exit path, and no other invocation uses it.
C6_SocketOwnedAndClosed ==
    \A s \in 1..Len(sockets) :
        LET o == sockets[s].openedBy
        IN  /\ conn[o] = s
            /\ \A q \in Invocations : conn[q] = s => q = o
            /\ \A k \in 1..Len(sockets[s].writes) : sockets[s].writes[k].by = o
            /\ \A k \in 1..Len(sockets[s].closedBy) : sockets[s].closedBy[k] = o
            /\ Len(sockets[s].closedBy) <= 1
            /\ (ipc[o] \in {"done", "panic"}) => Len(sockets[s].closedBy) = 1
            /\ (ipc[o] \notin {"done", "panic"}) => Len(sockets[s].closedBy) = 0

\* both invocations have exited, one after a refused write and one after an
\* encoding failure, and each one's socket is closed once
C6_Witness ==
    /\ Len(sockets) = 2
    /\ \A p \in {1, 2} : ipc[p] = "done" /\ conn[p] # NilConn
    /\ ierr[1] = ErrWrite
    /\ ierr[2] = ErrPayload
    /\ \A s \in 1..2 : Len(sockets[s].closedBy) = 1

====
